---- MODULE Spec2Model ----
(***************************************************************************)
(* photo_tools: a state-machine model of main (src/src/main.rs) and of     *)
(* make_path, photo_database and delete_photos (src/src/lib.rs).           *)
(*                                                                         *)
(* A file name is a pair <<stem, extension>>; the extension "" stands for  *)
(* a name for which Path::extension() is None.  The scanned directory is   *)
(* the set src of the regular files it holds; the quarantine directory     *)
(* <dir>/to_delete/ is q_exists (it is there, as a directory) and q_files  *)
(* (file name -> content).  The content of a source file is named after    *)
(* the file; OldData is what a file already lying in to_delete/ holds and  *)
(* PartialData what an interrupted fs::copy leaves behind.                 *)
(***************************************************************************)
EXTENDS FiniteSets, Integers, Sequences, TLC

VARIABLES
    photo_dir,    \* PhotoDir: [filter, raw_ext, img_ext] (the path is fixed)
    delete,       \* options.photo_del
    src,          \* regular files of the scanned directory
    q_exists,     \* <dir>/to_delete exists and is a directory
    q_files,      \* content of <dir>/to_delete/
    src0,         \* history: src when the process started
    q0_exists,    \* history: q_exists when the process started
    q0_files,     \* history: q_files when the process started
    pc,           \* position of the process
    dir_list,     \* photo_database: entries still to be visited
    photo_db,     \* HashMap<String, Photo>
    pending,      \* delete_photos: catalog keys still to be visited
    cur,          \* delete_photos: the (file, val) pair being relocated
    db_result,    \* how photo_database ended: none / ok / io_error / panic
    result,       \* how delete_photos ended: none / ok / err
    exit_status,  \* exit status of the process (-1 while it runs)
    fatal,        \* history: the fatal error that occurred, if any
    diag,         \* history: a diagnostic was printed
    copied,       \* history: keys given to fs::copy as source, copy succeeded
    removed,      \* history: keys given to fs::remove_file, removal succeeded
    observed,     \* history: files that went through the merge step
    obs_count,    \* history: number of merge steps done
    diag_os,      \* history: the diagnostic printed shows the OS error
    past_runs,    \* filters of the earlier runs on this directory
    quiet,        \* a whole run with verbose = false, as one record
    loud          \* the same run with verbose = true, as one record

vars == <<photo_dir, delete, src, q_exists, q_files, src0, q0_exists, q0_files,
          pc, dir_list, photo_db, pending, cur, db_result, result, exit_status,
          fatal, diag, copied, removed, observed, obs_count, diag_os, past_runs,
          quiet, loud>>

(***************************************************************************)
(* Bounds                                                                  *)
(***************************************************************************)
MaxBases == 2
MaxObs == 4
MaxRuns == 2

(***************************************************************************)
(* The universe of file names                                              *)
(***************************************************************************)
BaseNames == <<"a", "b", "c", "d">>
Bases == {BaseNames[i] : i \in 1..MaxBases}

NoExt == ""
RAF == "RAF"
JPG == "JPG"
TXT == "TXT"

PhotoFiles == Bases \X {RAF, JPG}
OtherFiles == {<<"a", TXT>>, <<"a", NoExt>>}
AllFiles == PhotoFiles \cup OtherFiles

DELETE_DIR_NAME == <<"to_delete", NoExt>>

OldData == <<"old", NoExt>>
PartialData == <<"partial", NoExt>>
FileData(f) == <<f[1], f[2]>>

QInitNames == {<<"a", RAF>>, <<"a", JPG>>}

Filters == {"RAW", "IMG", "OTHER"}
PhotoDirs == [filter : Filters, raw_ext : {RAF}, img_ext : {JPG, RAF}]

EmptyMap == [x \in {} |-> x]

\* the value of quiet and loud where the two runs are not followed
NoLane == [pc |-> "off"]

\* main.rs:87 the OS error code of a path that does not exist
ENOENT == 2
\* the OS error codes an I/O failure may carry (ENOENT, EACCES)
OsErrors == {ENOENT, 13}

(***************************************************************************)
(* photo_database: the pure parts                                          *)
(***************************************************************************)
file_stem(file) == file[1]
extension(file) == file[2]

\* lib.rs:97  file.is_file(): the entry is a regular file of the directory
is_file(file) == file \in src

\* lib.rs:101
IsPhotoFile_AnyExt(pd, ext) == TRUE
IsPhotoFile(pd, ext) == ext = pd.raw_ext \/ ext = pd.img_ext

\* lib.rs:119-124 with the two branches exchanged
FilterExt_Swapped(pd) == IF pd.filter = "RAW" THEN pd.img_ext ELSE pd.raw_ext

\* lib.rs:119-124 the extension marked by the filter
FilterExt(pd) == IF pd.filter = "RAW" THEN pd.raw_ext ELSE pd.img_ext

\* lib.rs:111-124 the key: <dir>/<stem>.<filter extension>
file_path(pd, file) == <<file_stem(file), FilterExt(pd)>>

Insert(db, key, photo) ==
    [k \in (DOMAIN db) \cup {key} |-> IF k = key THEN photo ELSE db[k]]

\* lib.rs:103-156 with the pair test reduced to its first half
Observe_HalfTest(pd, db, file) ==
    LET filename == file_stem(file)
        raw == extension(file) = pd.raw_ext
        jpg == extension(file) = pd.img_ext
        key == file_path(pd, file)
    IN  IF key \in DOMAIN db
        THEN IF db[key].has_raw /\ jpg
             THEN Insert(db, key, [file_name |-> filename, has_raw |-> TRUE, has_jpg |-> TRUE])
             ELSE db
        ELSE Insert(db, key, [file_name |-> filename, has_raw |-> raw, has_jpg |-> jpg])

\* lib.rs:103-156 with the second observation overwriting the flags
Observe_Overwrite(pd, db, file) ==
    LET filename == file_stem(file)
        raw == extension(file) = pd.raw_ext
        jpg == extension(file) = pd.img_ext
        key == file_path(pd, file)
    IN  Insert(db, key, [file_name |-> filename, has_raw |-> raw, has_jpg |-> jpg])

\* lib.rs:103-156 with the pair test dropped
Observe_AlwaysBoth(pd, db, file) ==
    LET filename == file_stem(file)
        raw == extension(file) = pd.raw_ext
        jpg == extension(file) = pd.img_ext
        key == file_path(pd, file)
    IN  IF key \in DOMAIN db
        THEN Insert(db, key, [file_name |-> filename, has_raw |-> TRUE, has_jpg |-> TRUE])
        ELSE Insert(db, key, [file_name |-> filename, has_raw |-> raw, has_jpg |-> jpg])

\* lib.rs:103-156 the merge step for one photo file
Observe(pd, db, file) ==
    LET filename == file_stem(file)
        raw == extension(file) = pd.raw_ext
        jpg == extension(file) = pd.img_ext
        key == file_path(pd, file)
    IN  IF key \in DOMAIN db
        THEN IF (db[key].has_raw /\ jpg) \/ (db[key].has_jpg /\ raw)
             THEN Insert(db, key, [file_name |-> filename, has_raw |-> TRUE, has_jpg |-> TRUE])
             ELSE db
        ELSE Insert(db, key, [file_name |-> filename, has_raw |-> raw, has_jpg |-> jpg])

(***************************************************************************)
(* delete_photos: the pure parts                                           *)
(***************************************************************************)
\* lib.rs:222-223 with the flags of the two filters exchanged
IsOrphan_Swapped(pd, val) ==
    \/ (pd.filter = "RAW" /\ (val.has_jpg /\ ~val.has_raw))
    \/ (pd.filter = "IMG" /\ (val.has_raw /\ ~val.has_jpg))

\* lib.rs:222-223 with the test of the IMG filter left out
IsOrphan_RawOnly(pd, val) ==
    pd.filter = "RAW" /\ (val.has_raw /\ ~val.has_jpg)

\* lib.rs:222-223 with the second filter test turned into a plain else
IsOrphan_ElseImg(pd, val) ==
    \/ (pd.filter = "RAW" /\ (val.has_raw /\ ~val.has_jpg))
    \/ (pd.filter # "RAW" /\ (val.has_jpg /\ ~val.has_raw))

\* lib.rs:222-223
IsOrphan(pd, val) ==
    \/ (pd.filter = "RAW" /\ (val.has_raw /\ ~val.has_jpg))
    \/ (pd.filter = "IMG" /\ (val.has_jpg /\ ~val.has_raw))

\* lib.rs:225-232 with the extension of the pair file
delete_file_PairExt(pd, val) ==
    <<val.file_name, IF pd.filter = "RAW" THEN pd.img_ext ELSE pd.raw_ext>>

\* lib.rs:225-232 the destination inside to_delete/
delete_file(pd, val) == <<val.file_name, FilterExt(pd)>>

(***************************************************************************)
(* Initial states                                                          *)
(***************************************************************************)
InitFs ==
    /\ src \in SUBSET AllFiles
    /\ q_exists \in BOOLEAN
    /\ q_files \in IF q_exists
                   THEN UNION {[S -> {OldData}] : S \in SUBSET QInitNames}
                   ELSE {EmptyMap}
    /\ src0 = src
    /\ q0_exists = q_exists
    /\ q0_files = q_files

InitRun ==
    /\ dir_list = {}
    /\ photo_db = EmptyMap
    /\ pending = {}
    /\ cur = DELETE_DIR_NAME
    /\ db_result = "none"
    /\ result = "none"
    /\ exit_status = -1
    /\ fatal = "none"
    /\ diag = FALSE
    /\ diag_os = FALSE
    /\ copied = {}
    /\ removed = {}
    /\ observed = {}
    /\ obs_count = 0

Init ==
    /\ photo_dir \in PhotoDirs
    /\ delete \in BOOLEAN
    /\ InitFs
    /\ InitRun
    /\ past_runs = <<>>
    /\ quiet = NoLane
    /\ loud = NoLane
    /\ pc = "make_path"

(***************************************************************************)
(* main and make_path                                                      *)
(***************************************************************************)
\* what the diagnostic of a fatal error shows of the OS error:
\* main.rs:87-91 "Not a valid path" for ENOENT, the error itself otherwise;
\* lib.rs:87, main.rs:102 the panic message of unwrap on Err shows the error;
\* lib.rs:99 unwrap on None has no error to show;
\* lib.rs:205 only "The directory could not be created";
\* main.rs:106 the error returned by delete_photos is printed
ReportsOsError(why, status) ==
    CASE why = "path" -> status # ENOENT
      [] why \in {"open", "entry"} -> TRUE
      [] why = "noext" -> FALSE
      [] why = "mkdir" -> FALSE
      [] OTHER -> TRUE

Exit(status, why, printed) ==
    /\ pc' = "exited"
    /\ exit_status' = status
    /\ fatal' = why
    /\ diag' = printed
    /\ diag_os' = (printed /\ ReportsOsError(why, status))

FsUnchanged == UNCHANGED <<src, q_exists, q_files>>
\* a panicking unwrap: the message is printed, the process ends with status 101
Panic(why) == Exit(101, why, TRUE)

ConfigUnchanged ==
    UNCHANGED <<photo_dir, delete, src0, q0_exists, q0_files, past_runs, quiet, loud>>
ScanUnchanged == UNCHANGED <<dir_list, photo_db, db_result, observed, obs_count>>
MoveUnchanged == UNCHANGED <<pending, cur, result, copied, removed>>
ExitUnchanged == UNCHANGED <<exit_status, fatal, diag, diag_os>>

\* main.rs:86 make_path returns Ok
make_path_ok ==
    /\ pc = "make_path"
    /\ pc' = "read_dir"
    /\ FsUnchanged /\ ConfigUnchanged /\ ScanUnchanged /\ MoveUnchanged /\ ExitUnchanged

\* main.rs:86-93 fs::canonicalize fails: print, exit with the OS error code
make_path_err ==
    /\ pc = "make_path"
    /\ \E err \in OsErrors : Exit(err, "path", TRUE)
    /\ FsUnchanged /\ ConfigUnchanged /\ ScanUnchanged /\ MoveUnchanged

(***************************************************************************)
(* photo_database                                                          *)
(***************************************************************************)
\* lib.rs:86-87 fs::read_dir fails and the unwrap panics
read_dir_open_fail ==
    /\ pc = "read_dir"
    /\ db_result' = "panic"
    /\ Panic("open")
    /\ UNCHANGED <<dir_list, photo_db, observed, obs_count>>
    /\ FsUnchanged /\ ConfigUnchanged /\ MoveUnchanged

\* lib.rs:88-89 reading an entry fails: Err is returned, main.rs:102 unwraps it
read_dir_entry_fail ==
    /\ pc = "read_dir"
    /\ db_result' = "io_error"
    /\ Panic("entry")
    /\ UNCHANGED <<dir_list, photo_db, observed, obs_count>>
    /\ FsUnchanged /\ ConfigUnchanged /\ MoveUnchanged

\* lib.rs:86-92 the listing holds every entry of the directory, to_delete included
read_dir_ok ==
    /\ pc = "read_dir"
    /\ dir_list' = src \cup (IF q_exists THEN {DELETE_DIR_NAME} ELSE {})
    /\ photo_db' = EmptyMap
    /\ pc' = "scan"
    /\ UNCHANGED <<db_result, observed, obs_count>>
    /\ FsUnchanged /\ ConfigUnchanged /\ MoveUnchanged /\ ExitUnchanged

\* lib.rs:95-97 an entry that is not a regular file is skipped
scan_skip_dir ==
    /\ pc = "scan"
    /\ \E file \in dir_list :
          /\ ~is_file(file)
          /\ dir_list' = dir_list \ {file}
    /\ UNCHANGED <<pc, photo_db, db_result, observed, obs_count>>
    /\ FsUnchanged /\ ConfigUnchanged /\ MoveUnchanged /\ ExitUnchanged

\* lib.rs:99 with a name without extension passed over
scan_no_extension_Skipped ==
    /\ pc = "scan"
    /\ \E file \in dir_list :
          /\ is_file(file)
          /\ extension(file) = NoExt
          /\ dir_list' = dir_list \ {file}
    /\ UNCHANGED <<pc, photo_db, db_result, observed, obs_count>>
    /\ FsUnchanged /\ ConfigUnchanged /\ MoveUnchanged /\ ExitUnchanged

\* lib.rs:99 file.extension().unwrap() panics on a name without extension
scan_no_extension ==
    /\ pc = "scan"
    /\ \E file \in dir_list :
          /\ is_file(file)
          /\ extension(file) = NoExt
          /\ dir_list' = dir_list \ {file}
    /\ db_result' = "panic"
    /\ Panic("noext")
    /\ UNCHANGED <<photo_db, observed, obs_count>>
    /\ FsUnchanged /\ ConfigUnchanged /\ MoveUnchanged

\* lib.rs:101 a file that is neither RAW nor IMG is skipped
scan_skip_other ==
    /\ pc = "scan"
    /\ \E file \in dir_list :
          /\ is_file(file)
          /\ extension(file) # NoExt
          /\ ~IsPhotoFile(photo_dir, extension(file))
          /\ dir_list' = dir_list \ {file}
    /\ UNCHANGED <<pc, photo_db, db_result, observed, obs_count>>
    /\ FsUnchanged /\ ConfigUnchanged /\ MoveUnchanged /\ ExitUnchanged

\* lib.rs:101-157 a photo file goes through the merge step
scan_photo ==
    /\ pc = "scan"
    /\ \E file \in dir_list :
          /\ is_file(file)
          /\ extension(file) # NoExt
          /\ IsPhotoFile(photo_dir, extension(file))
          /\ dir_list' = dir_list \ {file}
          /\ photo_db' = Observe(photo_dir, photo_db, file)
          /\ observed' = observed \cup {file}
    /\ obs_count' = obs_count + 1
    /\ UNCHANGED <<pc, db_result>>
    /\ FsUnchanged /\ ConfigUnchanged /\ MoveUnchanged /\ ExitUnchanged

\* lib.rs:159-165 the pass is over, Ok(photo_db); main.rs:104 calls delete_photos
scan_done ==
    /\ pc = "scan"
    /\ dir_list = {}
    /\ db_result' = "ok"
    /\ pc' = "metadata"
    /\ UNCHANGED <<dir_list, photo_db, observed, obs_count>>
    /\ FsUnchanged /\ ConfigUnchanged /\ MoveUnchanged /\ ExitUnchanged

(***************************************************************************)
(* delete_photos                                                           *)
(***************************************************************************)
\* main.rs:104-107 delete_photos returned Err: the error is printed, main returns
ReturnErr(why) ==
    /\ result' = "err"
    /\ Exit(0, why, TRUE)

\* main.rs:104-105 delete_photos returned Ok: "All done!", main returns
ReturnOk ==
    /\ result' = "ok"
    /\ pc' = "exited"
    /\ exit_status' = 0
    /\ UNCHANGED <<fatal, diag, diag_os>>

\* lib.rs:195-200 to_delete is there and is a directory: nothing is created
dir_exists ==
    /\ pc = "metadata"
    /\ q_exists
    /\ pc' = "loop"
    /\ pending' = DOMAIN photo_db
    /\ UNCHANGED <<cur, result, copied, removed>>
    /\ FsUnchanged /\ ConfigUnchanged /\ ScanUnchanged /\ ExitUnchanged

\* lib.rs:200-208 to_delete is created
dir_create_ok ==
    /\ pc = "metadata"
    /\ ~q_exists
    /\ q_exists' = TRUE
    /\ q_files' = EmptyMap
    /\ pc' = "loop"
    /\ pending' = DOMAIN photo_db
    /\ UNCHANGED <<src, cur, result, copied, removed>>
    /\ ConfigUnchanged /\ ScanUnchanged /\ ExitUnchanged

\* lib.rs:204-207 the creation fails: print, exit with the OS error code
dir_create_fail ==
    /\ pc = "metadata"
    /\ ~q_exists
    /\ \E err \in OsErrors : Exit(err, "mkdir", TRUE)
    /\ FsUnchanged /\ ConfigUnchanged /\ ScanUnchanged /\ MoveUnchanged

\* lib.rs:221-224 a record that is not an orphan is passed over
loop_keep ==
    /\ pc = "loop"
    /\ \E file \in pending :
          /\ ~IsOrphan(photo_dir, photo_db[file])
          /\ pending' = pending \ {file}
    /\ UNCHANGED <<pc, cur, result, copied, removed>>
    /\ FsUnchanged /\ ConfigUnchanged /\ ScanUnchanged /\ ExitUnchanged

\* lib.rs:221-232 an orphan: its destination is built, the copy comes next
loop_orphan ==
    /\ pc = "loop"
    /\ \E file \in pending :
          /\ IsOrphan(photo_dir, photo_db[file])
          /\ pending' = pending \ {file}
          /\ cur' = file
    /\ pc' = "copy"
    /\ UNCHANGED <<result, copied, removed>>
    /\ FsUnchanged /\ ConfigUnchanged /\ ScanUnchanged /\ ExitUnchanged

\* lib.rs:233 fs::copy(file, delete_file) succeeds
copy_ok ==
    /\ pc = "copy"
    /\ q_exists
    /\ cur \in src
    /\ q_files' = Insert(q_files, delete_file(photo_dir, photo_db[cur]), FileData(cur))
    /\ copied' = copied \cup {cur}
    /\ pc' = "remove"
    /\ UNCHANGED <<src, q_exists, pending, cur, result, removed>>
    /\ ConfigUnchanged /\ ScanUnchanged /\ ExitUnchanged

\* lib.rs:233 with the error of fs::copy dropped instead of returned
copy_fail_Ignored ==
    /\ pc = "copy"
    /\ \/ q_files' = q_files
       \/ /\ q_exists
          /\ cur \in src
          /\ q_files' = Insert(q_files, delete_file(photo_dir, photo_db[cur]), PartialData)
    /\ pc' = "remove"
    /\ UNCHANGED <<src, q_exists, pending, cur, result, copied, removed>>
    /\ ConfigUnchanged /\ ScanUnchanged /\ ExitUnchanged

\* lib.rs:233 with the error of fs::copy reported and the loop going on
copy_fail_Continue ==
    /\ pc = "copy"
    /\ \/ q_files' = q_files
       \/ /\ q_exists
          /\ cur \in src
          /\ q_files' = Insert(q_files, delete_file(photo_dir, photo_db[cur]), PartialData)
    /\ pc' = "loop"
    /\ fatal' = "copy"
    /\ diag' = TRUE
    /\ diag_os' = TRUE
    /\ UNCHANGED <<src, q_exists, pending, cur, result, copied, removed, exit_status>>
    /\ ConfigUnchanged /\ ScanUnchanged

\* lib.rs:233 fs::copy fails, leaving the destination untouched or partly
\* written; the error is returned by `?`
copy_fail ==
    /\ pc = "copy"
    /\ \/ q_files' = q_files
       \/ /\ q_exists
          /\ cur \in src
          /\ q_files' = Insert(q_files, delete_file(photo_dir, photo_db[cur]), PartialData)
    /\ ReturnErr("copy")
    /\ UNCHANGED <<src, q_exists, pending, cur, copied, removed>>
    /\ ConfigUnchanged /\ ScanUnchanged

\* lib.rs:234 with the source left in place
remove_ok_Kept ==
    /\ pc = "remove"
    /\ cur \in src
    /\ removed' = removed \cup {cur}
    /\ pc' = "loop"
    /\ UNCHANGED <<src, q_exists, q_files, pending, cur, result, copied>>
    /\ ConfigUnchanged /\ ScanUnchanged /\ ExitUnchanged

\* lib.rs:234 fs::remove_file(file) succeeds
remove_ok ==
    /\ pc = "remove"
    /\ cur \in src
    /\ src' = src \ {cur}
    /\ removed' = removed \cup {cur}
    /\ pc' = "loop"
    /\ UNCHANGED <<q_exists, q_files, pending, cur, result, copied>>
    /\ ConfigUnchanged /\ ScanUnchanged /\ ExitUnchanged

\* lib.rs:234 fs::remove_file fails; the error is returned by `?`
remove_fail ==
    /\ pc = "remove"
    /\ ReturnErr("remove")
    /\ FsUnchanged
    /\ UNCHANGED <<pending, cur, copied, removed>>
    /\ ConfigUnchanged /\ ScanUnchanged

\* lib.rs:239-241 every record was visited
loop_done ==
    /\ pc = "loop"
    /\ pending = {}
    /\ pc' = "terminal"
    /\ FsUnchanged /\ ConfigUnchanged /\ ScanUnchanged /\ MoveUnchanged /\ ExitUnchanged

\* lib.rs:246-252 non-delete mode: the folder is left, Ok(())
terminal_keep ==
    /\ pc = "terminal"
    /\ ~delete
    /\ ReturnOk
    /\ FsUnchanged
    /\ UNCHANGED <<pending, cur, copied, removed>>
    /\ ConfigUnchanged /\ ScanUnchanged

\* lib.rs:241-242 with the folder emptied but not removed
terminal_delete_ok_Emptied ==
    /\ pc = "terminal"
    /\ delete
    /\ q_exists
    /\ q_files' = EmptyMap
    /\ ReturnOk
    /\ UNCHANGED <<src, q_exists, pending, cur, copied, removed>>
    /\ ConfigUnchanged /\ ScanUnchanged

\* lib.rs:241-245,252 delete mode: fs::remove_dir_all succeeds, Ok(())
terminal_delete_ok ==
    /\ pc = "terminal"
    /\ delete
    /\ q_exists
    /\ q_exists' = FALSE
    /\ q_files' = EmptyMap
    /\ ReturnOk
    /\ UNCHANGED <<src, pending, cur, copied, removed>>
    /\ ConfigUnchanged /\ ScanUnchanged

\* lib.rs:242 fs::remove_dir_all fails after removing some of the content;
\* the error is returned by `?`
terminal_delete_fail ==
    /\ pc = "terminal"
    /\ delete
    /\ \E S \in SUBSET (DOMAIN q_files) : q_files' = [f \in S |-> q_files[f]]
    /\ ReturnErr("rmall")
    /\ UNCHANGED <<src, q_exists, pending, cur, copied, removed>>
    /\ ConfigUnchanged /\ ScanUnchanged

(***************************************************************************)
(* The program                                                             *)
(***************************************************************************)
make_path == make_path_ok \/ make_path_err

photo_database ==
    \/ read_dir_open_fail
    \/ read_dir_entry_fail
    \/ read_dir_ok
    \/ scan_skip_dir
    \/ scan_no_extension
    \/ scan_skip_other
    \/ scan_photo
    \/ scan_done

delete_photos ==
    \/ dir_exists
    \/ dir_create_ok
    \/ dir_create_fail
    \/ loop_keep
    \/ loop_orphan
    \/ copy_ok
    \/ copy_fail
    \/ remove_ok
    \/ remove_fail
    \/ loop_done
    \/ terminal_keep
    \/ terminal_delete_ok
    \/ terminal_delete_fail

Next == make_path \/ photo_database \/ delete_photos

Spec == Init /\ [][Next]_vars

(***************************************************************************)
(* The merge step on its own: any sequence of observations, repeated ones  *)
(* included, of at most MaxObs photo files.                                *)
(***************************************************************************)
InitMerge ==
    /\ photo_dir \in PhotoDirs
    /\ delete = FALSE
    /\ src = PhotoFiles
    /\ q_exists = FALSE
    /\ q_files = EmptyMap
    /\ src0 = src
    /\ q0_exists = q_exists
    /\ q0_files = q_files
    /\ InitRun
    /\ past_runs = <<>>
    /\ quiet = NoLane
    /\ loud = NoLane
    /\ pc = "merge"

\* lib.rs:101-157 one observation of a photo file
observe_any ==
    /\ pc = "merge"
    /\ obs_count < MaxObs
    /\ \E file \in PhotoFiles :
          /\ IsPhotoFile(photo_dir, extension(file))
          /\ photo_db' = Observe(photo_dir, photo_db, file)
          /\ observed' = observed \cup {file}
    /\ obs_count' = obs_count + 1
    /\ UNCHANGED <<pc, dir_list, db_result>>
    /\ FsUnchanged /\ ConfigUnchanged /\ MoveUnchanged /\ ExitUnchanged

NextMerge == observe_any

SpecMerge == InitMerge /\ [][NextMerge]_vars

(***************************************************************************)
(* The tool run again on the same directory, with the same or the other    *)
(* filter, after a non-delete run that succeeded; at most MaxRuns runs.    *)
(***************************************************************************)
\* main.rs:18-27 a new process starts on the directory as the last one left it
run_again(filter) ==
    /\ result = "ok"
    /\ ~delete
    /\ Len(past_runs) + 1 < MaxRuns
    /\ past_runs' = Append(past_runs, photo_dir.filter)
    /\ photo_dir' = [photo_dir EXCEPT !.filter = filter]
    /\ pc' = "make_path"
    /\ dir_list' = {}
    /\ photo_db' = EmptyMap
    /\ pending' = {}
    /\ cur' = DELETE_DIR_NAME
    /\ db_result' = "none"
    /\ result' = "none"
    /\ exit_status' = -1
    /\ fatal' = "none"
    /\ diag' = FALSE
    /\ diag_os' = FALSE
    /\ copied' = {}
    /\ removed' = {}
    /\ observed' = {}
    /\ obs_count' = 0
    /\ UNCHANGED <<delete, src0, q0_exists, q0_files, quiet, loud>>
    /\ FsUnchanged

run_again_same ==
    /\ pc = "exited"
    /\ run_again(photo_dir.filter)

run_again_other ==
    /\ pc = "exited"
    /\ photo_dir.filter \in {"RAW", "IMG"}
    /\ run_again(IF photo_dir.filter = "RAW" THEN "IMG" ELSE "RAW")

NextRerun == Next \/ run_again_same \/ run_again_other

SpecRerun == Init /\ [][NextRerun]_vars

(***************************************************************************)
(* Two runs side by side: quiet runs with verbose = false, loud with       *)
(* verbose = true, from the same directory, with the same configuration,   *)
(* the same order of visit and the same outcome of every filesystem call.  *)
(* A run is a record; out counts the lines it printed.                     *)
(***************************************************************************)
Lines(cond) == IF cond THEN 1 ELSE 0

LaneInit ==
    [pc |-> "make_path", src |-> src, q_exists |-> q_exists, q_files |-> q_files,
     dir_list |-> {}, photo_db |-> EmptyMap, pending |-> {}, cur |-> DELETE_DIR_NAME,
     db_result |-> "none", result |-> "none", exit_status |-> -1, out |-> 0]

LaneExit(st, status, res, lines) ==
    [st EXCEPT !.pc = "exited", !.exit_status = status, !.result = res,
               !.out = @ + lines]

\* main.rs:76-93, lib.rs:39-58
lane_make_path(st, verbose, ok, err) ==
    IF ok
    THEN [st EXCEPT !.pc = "read_dir", !.out = @ + 3 * Lines(verbose)]
    ELSE LaneExit(st, err, "none", 2 * Lines(verbose) + 1)

\* lib.rs:86-92
lane_read_dir(st, verbose, outcome) ==
    CASE outcome = "ok" ->
            [st EXCEPT !.dir_list = st.src \cup
                                    (IF st.q_exists THEN {DELETE_DIR_NAME} ELSE {}),
                       !.pc = "scan"]
      [] outcome = "open" ->
            [LaneExit(st, 101, "none", 1) EXCEPT !.db_result = "panic"]
      [] OTHER ->
            [LaneExit(st, 101, "none", 1) EXCEPT !.db_result = "io_error"]

\* lib.rs:95-158
lane_scan(st, verbose, file) ==
    LET rest == [st EXCEPT !.dir_list = @ \ {file}]
    IN  IF file \notin st.src THEN rest
        ELSE IF extension(file) = NoExt
        THEN [LaneExit(rest, 101, "none", 1) EXCEPT !.db_result = "panic"]
        ELSE IF IsPhotoFile(photo_dir, extension(file))
        THEN [rest EXCEPT !.photo_db = Observe(photo_dir, @, file)]
        ELSE rest

\* lib.rs:159-165
lane_scan_done(st, verbose) ==
    [st EXCEPT !.db_result = "ok", !.pc = "metadata", !.out = @ + Lines(verbose)]

\* lib.rs:191-216
lane_metadata(st, verbose, ok, err) ==
    LET go == [st EXCEPT !.pc = "loop", !.pending = DOMAIN st.photo_db,
                         !.out = @ + Lines(verbose /\ ~delete)]
    IN  IF st.q_exists THEN go
        ELSE IF ok THEN [go EXCEPT !.q_exists = TRUE, !.q_files = EmptyMap]
        ELSE LaneExit(st, err, "none", 1)

\* lib.rs:221-232
lane_loop(st, verbose, file) ==
    IF IsOrphan(photo_dir, st.photo_db[file])
    THEN [st EXCEPT !.pending = @ \ {file}, !.cur = file, !.pc = "copy"]
    ELSE [st EXCEPT !.pending = @ \ {file}]

\* lib.rs:239-241
lane_loop_done(st, verbose) == [st EXCEPT !.pc = "terminal"]

\* lib.rs:233, main.rs:106
lane_copy(st, verbose, ok, partial) ==
    LET dest == delete_file(photo_dir, st.photo_db[st.cur])
        readable == st.cur \in st.src /\ st.q_exists
    IN  IF ok /\ readable
        THEN [st EXCEPT !.q_files = Insert(@, dest, FileData(st.cur)), !.pc = "remove"]
        ELSE LaneExit([st EXCEPT !.q_files = IF partial /\ readable
                                             THEN Insert(@, dest, PartialData)
                                             ELSE @],
                      0, "err", 1)

\* lib.rs:234-237 with the removal placed inside `if verbose`
lane_remove_WhenVerbose(st, verbose, ok) ==
    IF ok /\ st.cur \in st.src
    THEN [st EXCEPT !.src = IF verbose THEN @ \ {st.cur} ELSE @, !.pc = "loop",
                    !.out = @ + Lines(verbose)]
    ELSE LaneExit(st, 0, "err", 1)

\* lib.rs:234-237, main.rs:106
lane_remove(st, verbose, ok) ==
    IF ok /\ st.cur \in st.src
    THEN [st EXCEPT !.src = @ \ {st.cur}, !.pc = "loop", !.out = @ + Lines(verbose)]
    ELSE LaneExit(st, 0, "err", 1)

\* lib.rs:241-252, main.rs:104-107
lane_terminal(st, verbose, ok, S) ==
    IF ~delete
    THEN LaneExit(st, 0, "ok", 2)
    ELSE IF ok /\ st.q_exists
    THEN LaneExit([st EXCEPT !.q_exists = FALSE, !.q_files = EmptyMap],
                  0, "ok", Lines(verbose) + 1)
    ELSE LaneExit([st EXCEPT !.q_files = [f \in S \cap DOMAIN st.q_files |-> st.q_files[f]]],
                  0, "err", 1)

InitVerbose ==
    /\ photo_dir \in PhotoDirs
    /\ delete \in BOOLEAN
    /\ InitFs
    /\ InitRun
    /\ past_runs = <<>>
    /\ quiet = LaneInit
    /\ loud = LaneInit
    /\ pc = "twin"

BothAt(place) == pc = "twin" /\ quiet.pc = place /\ loud.pc = place

OneRunUnchanged ==
    /\ UNCHANGED <<photo_dir, delete, src0, q0_exists, q0_files, past_runs, pc>>
    /\ FsUnchanged /\ ScanUnchanged /\ MoveUnchanged /\ ExitUnchanged

twin_make_path ==
    /\ BothAt("make_path")
    /\ \E ok \in BOOLEAN, err \in OsErrors :
          /\ quiet' = lane_make_path(quiet, FALSE, ok, err)
          /\ loud' = lane_make_path(loud, TRUE, ok, err)
    /\ OneRunUnchanged

twin_read_dir ==
    /\ BothAt("read_dir")
    /\ \E outcome \in {"ok", "open", "entry"} :
          /\ quiet' = lane_read_dir(quiet, FALSE, outcome)
          /\ loud' = lane_read_dir(loud, TRUE, outcome)
    /\ OneRunUnchanged

twin_scan ==
    /\ BothAt("scan")
    /\ \E file \in quiet.dir_list \cap loud.dir_list :
          /\ quiet' = lane_scan(quiet, FALSE, file)
          /\ loud' = lane_scan(loud, TRUE, file)
    /\ OneRunUnchanged

twin_scan_done ==
    /\ BothAt("scan")
    /\ quiet.dir_list = {} /\ loud.dir_list = {}
    /\ quiet' = lane_scan_done(quiet, FALSE)
    /\ loud' = lane_scan_done(loud, TRUE)
    /\ OneRunUnchanged

twin_metadata ==
    /\ BothAt("metadata")
    /\ \E ok \in BOOLEAN, err \in OsErrors :
          /\ quiet' = lane_metadata(quiet, FALSE, ok, err)
          /\ loud' = lane_metadata(loud, TRUE, ok, err)
    /\ OneRunUnchanged

twin_loop ==
    /\ BothAt("loop")
    /\ \E file \in quiet.pending \cap loud.pending :
          /\ quiet' = lane_loop(quiet, FALSE, file)
          /\ loud' = lane_loop(loud, TRUE, file)
    /\ OneRunUnchanged

twin_loop_done ==
    /\ BothAt("loop")
    /\ quiet.pending = {} /\ loud.pending = {}
    /\ quiet' = lane_loop_done(quiet, FALSE)
    /\ loud' = lane_loop_done(loud, TRUE)
    /\ OneRunUnchanged

twin_copy ==
    /\ BothAt("copy")
    /\ \E ok \in BOOLEAN, partial \in BOOLEAN :
          /\ quiet' = lane_copy(quiet, FALSE, ok, partial)
          /\ loud' = lane_copy(loud, TRUE, ok, partial)
    /\ OneRunUnchanged

twin_remove ==
    /\ BothAt("remove")
    /\ \E ok \in BOOLEAN :
          /\ quiet' = lane_remove(quiet, FALSE, ok)
          /\ loud' = lane_remove(loud, TRUE, ok)
    /\ OneRunUnchanged

twin_terminal ==
    /\ BothAt("terminal")
    /\ \E ok \in BOOLEAN, S \in SUBSET (DOMAIN quiet.q_files) :
          /\ quiet' = lane_terminal(quiet, FALSE, ok, S)
          /\ loud' = lane_terminal(loud, TRUE, ok, S)
    /\ OneRunUnchanged

NextVerbose ==
    \/ twin_make_path
    \/ twin_read_dir
    \/ twin_scan
    \/ twin_scan_done
    \/ twin_metadata
    \/ twin_loop
    \/ twin_loop_done
    \/ twin_copy
    \/ twin_remove
    \/ twin_terminal

SpecVerbose == InitVerbose /\ [][NextVerbose]_vars

(***************************************************************************)
(* Vocabulary of the properties                                            *)
(***************************************************************************)
RawExt == photo_dir.raw_ext
ImgExt == photo_dir.img_ext
KeptExt == IF photo_dir.filter = "RAW" THEN RawExt ELSE ImgExt
PairExt == IF photo_dir.filter = "RAW" THEN ImgExt ELSE RawExt

\* the photo files the directory held at the start, and their stems
PhotoFiles0 == {f \in src0 : extension(f) \in {RawExt, ImgExt}}
PhotoStems0 == {file_stem(f) : f \in PhotoFiles0}

\* the orphan condition as the specification words it
OrphanRecord(val) ==
    \/ (photo_dir.filter = "RAW" /\ val.has_raw /\ ~val.has_jpg)
    \/ (photo_dir.filter = "IMG" /\ val.has_jpg /\ ~val.has_raw)

\* the orphan files of the directory as it was at the start
OrphanFiles0 ==
    {f \in src0 : /\ photo_dir.filter \in {"RAW", "IMG"}
                  /\ extension(f) = KeptExt
                  /\ <<file_stem(f), PairExt>> \notin src0}

Succeeded == pc = "exited" /\ result = "ok"

\* the file f of to_delete/ corresponds to the orphan record under key k
Corresponds(f, k) ==
    /\ OrphanRecord(photo_db[k])
    /\ file_stem(f) = photo_db[k].file_name
    /\ extension(f) = KeptExt

(***************************************************************************)
(* C1: whatever the order in which the entries are visited, the catalog    *)
(* returned by photo_database is the one determined by the directory       *)
(* content: one record per stem that has a photo file, has_raw and has_jpg *)
(* telling which of <stem>.<raw_ext> and <stem>.<img_ext> the directory    *)
(* holds; a stem with both files (raw_ext # img_ext) has exactly one       *)
(* record, with both flags true.                                           *)
(***************************************************************************)
C1_CatalogIndependentOfScanOrder ==
    db_result = "ok" =>
        /\ \A f \in src0 : extension(f) # NoExt
        /\ DOMAIN photo_db = {<<b, KeptExt>> : b \in PhotoStems0}
        /\ \A b \in PhotoStems0 :
              photo_db[<<b, KeptExt>>] =
                  [file_name |-> b,
                   has_raw |-> <<b, RawExt>> \in src0,
                   has_jpg |-> <<b, ImgExt>> \in src0]
        /\ \A b \in Bases :
              (RawExt # ImgExt /\ <<b, RawExt>> \in src0 /\ <<b, ImgExt>> \in src0) =>
                  /\ Cardinality({k \in DOMAIN photo_db : photo_db[k].file_name = b}) = 1
                  /\ \A k \in DOMAIN photo_db :
                        photo_db[k].file_name = b =>
                            photo_db[k].has_raw /\ photo_db[k].has_jpg

C1_Witness ==
    /\ db_result = "ok"
    /\ RawExt # ImgExt
    /\ <<"a", RawExt>> \in src0 /\ <<"a", ImgExt>> \in src0
    /\ <<"b", RawExt>> \in src0 /\ <<"b", ImgExt>> \notin src0
    /\ Cardinality(DOMAIN photo_db) = 2

(***************************************************************************)
(* C2: delete_photos copies and removes the file of a record if and only   *)
(* if the record is an orphan under the filter; the files of the other     *)
(* records are neither copied nor removed.                                 *)
(***************************************************************************)
C2_RelocatedIffOrphan ==
    /\ \A k \in copied \cup removed :
          k \in DOMAIN photo_db /\ OrphanRecord(photo_db[k])
    /\ Succeeded =>
          \A k \in DOMAIN photo_db :
              OrphanRecord(photo_db[k]) => (k \in copied /\ k \in removed)
    /\ \A k \in DOMAIN photo_db :
          ~OrphanRecord(photo_db[k]) =>
              \A f \in {<<photo_db[k].file_name, RawExt>>,
                        <<photo_db[k].file_name, ImgExt>>} :
                  /\ f \notin copied \cup removed
                  /\ f \in src0 => f \in src

C2_Witness ==
    /\ Succeeded
    /\ \E k \in DOMAIN photo_db : OrphanRecord(photo_db[k]) /\ k \in removed
    /\ \E k \in DOMAIN photo_db :
          ~OrphanRecord(photo_db[k]) /\ ~(photo_db[k].has_raw /\ photo_db[k].has_jpg)

(***************************************************************************)
(* C3: a file whose extension is neither raw_ext nor img_ext never goes    *)
(* through the merge step, no record of the catalog stems from it, and it  *)
(* stays in the directory, neither copied nor removed, in both modes.      *)
(***************************************************************************)
C3_OtherFilesUntouched ==
    /\ \A f \in src0 :
          extension(f) \notin {RawExt, ImgExt} =>
              /\ f \in src
              /\ f \notin observed
              /\ f \notin copied \cup removed
              /\ f \in DOMAIN q_files => q_files[f] # FileData(f)
    /\ \A k \in DOMAIN photo_db : photo_db[k].file_name \in PhotoStems0

C3_Witness ==
    /\ Succeeded
    /\ delete
    /\ <<"a", TXT>> \in src0
    /\ <<"a", KeptExt>> \in removed

(***************************************************************************)
(* C4 as stated: after a successful non-delete run every file of           *)
(* to_delete/ corresponds to exactly one orphan record of the catalog and  *)
(* no orphan is left at its original path.                                 *)
(***************************************************************************)
C4_Original ==
    (Succeeded /\ ~delete) =>
        /\ \A f \in DOMAIN q_files :
              Cardinality({k \in DOMAIN photo_db : Corresponds(f, k)}) = 1
        /\ \A k \in DOMAIN photo_db :
              OrphanRecord(photo_db[k]) => <<photo_db[k].file_name, KeptExt>> \notin src

(***************************************************************************)
(* C4 amended: after a successful non-delete run every file of to_delete/  *)
(* was already there when the run started or corresponds to exactly one    *)
(* orphan record of the catalog, and no orphan is left at its original     *)
(* path.                                                                   *)
(***************************************************************************)
C4_QuarantineCompleteness ==
    (Succeeded /\ ~delete) =>
        /\ \A f \in DOMAIN q_files :
              \/ f \in DOMAIN q0_files
              \/ Cardinality({k \in DOMAIN photo_db : Corresponds(f, k)}) = 1
        /\ \A k \in DOMAIN photo_db :
              OrphanRecord(photo_db[k]) => <<photo_db[k].file_name, KeptExt>> \notin src

C4_Witness ==
    /\ Succeeded /\ ~delete
    /\ q0_exists
    /\ DOMAIN q0_files # {}
    /\ \E f \in DOMAIN q_files : f \notin DOMAIN q0_files
    /\ Cardinality(removed) = 2

(***************************************************************************)
(* C5: the process ends with status 0 only when no fatal error occurred;   *)
(* after any fatal error it ends with a non-zero status and a diagnostic   *)
(* was printed.                                                            *)
(***************************************************************************)
C5_ExitStatusTellsFailure ==
    pc = "exited" =>
        /\ exit_status = 0 => fatal = "none"
        /\ fatal # "none" => (exit_status # 0 /\ diag)

(***************************************************************************)
(* C6: when the directory cannot be read (it cannot be opened, or an entry *)
(* cannot be read), photo_database returns an I/O error to its caller,     *)
(* there is no catalog and the filesystem is as it was.                    *)
(***************************************************************************)
C6_ReadFailureReturnsIoError ==
    fatal \in {"open", "entry"} =>
        /\ db_result = "io_error"
        /\ photo_db = EmptyMap
        /\ src = src0
        /\ q_exists = q0_exists
        /\ q_files = q0_files

(***************************************************************************)
(* C7: until the terminal step of a delete run, every file the directory   *)
(* held at the start is still at its source path or lies complete in       *)
(* to_delete/; a source file is removed only after its copy succeeded.     *)
(***************************************************************************)
TerminalDeleteRan == delete /\ (result = "ok" \/ fatal = "rmall")

C7_NoFileLostBeforeTerminalStep ==
    /\ removed \subseteq copied
    /\ ~TerminalDeleteRan =>
          \A f \in src0 :
              \/ f \in src
              \/ /\ q_exists
                 /\ f \in DOMAIN q_files
                 /\ q_files[f] = FileData(f)

C7_Witness ==
    /\ fatal = "copy"
    /\ removed # {}
    /\ cur \in src
    /\ cur \in DOMAIN q_files
    /\ q_files[cur] = PartialData

(***************************************************************************)
(* C8: after a successful run to_delete/ exists if and only if the run was *)
(* a non-delete run; after a non-delete run it holds a copy of every       *)
(* orphan file, after a delete run it is gone with all its content and no  *)
(* orphan file is left in the directory.                                   *)
(***************************************************************************)
C8_QuarantineExistsIffNotDelete ==
    Succeeded =>
        /\ q_exists <=> ~delete
        /\ ~delete =>
              \A f \in OrphanFiles0 :
                  f \in DOMAIN q_files /\ q_files[f] = FileData(f)
        /\ delete =>
              /\ q_files = EmptyMap
              /\ \A f \in OrphanFiles0 : f \notin src

C8_Witness ==
    /\ Succeeded
    /\ delete
    /\ q0_exists
    /\ DOMAIN q0_files # {}
    /\ OrphanFiles0 # {}

(***************************************************************************)
(* C9: every record of the catalog has has_raw or has_jpg true, no record  *)
(* leaves the catalog, and a flag that is true stays true.                 *)
(***************************************************************************)
C9_FlagsOnlyGrow ==
    [][/\ \A k \in DOMAIN photo_db' : photo_db'[k].has_raw \/ photo_db'[k].has_jpg
       /\ \A k \in DOMAIN photo_db :
             /\ k \in DOMAIN photo_db'
             /\ photo_db[k].has_raw => photo_db'[k].has_raw
             /\ photo_db[k].has_jpg => photo_db'[k].has_jpg
             /\ photo_db'[k].file_name = photo_db[k].file_name]_vars

C9_Witness ==
    /\ pc = "scan"
    /\ RawExt # ImgExt
    /\ \E k \in DOMAIN photo_db : photo_db[k].has_raw /\ photo_db[k].has_jpg
    /\ \E k \in DOMAIN photo_db : ~photo_db[k].has_raw

(***************************************************************************)
(* C10: a merge step on a file that was already observed leaves the        *)
(* catalog as it was: a repeated RAW observation does not set has_jpg, a   *)
(* repeated IMG observation does not set has_raw, and a record with both   *)
(* flags keeps them and its name.                                          *)
(***************************************************************************)
C10_RepeatedObservationChangesNothing ==
    [][(obs_count' = obs_count + 1 /\ observed' = observed) =>
          photo_db' = photo_db]_vars

C10_Witness ==
    /\ pc = "merge"
    /\ RawExt # ImgExt
    /\ obs_count > Cardinality(observed)
    /\ \E k \in DOMAIN photo_db : photo_db[k].has_raw /\ ~photo_db[k].has_jpg
    /\ \E k \in DOMAIN photo_db : photo_db[k].has_jpg /\ ~photo_db[k].has_raw

(***************************************************************************)
(* C11: the step in which a copy or a removal fails ends delete_photos     *)
(* with Err: the process is over, the failing file is still at its source  *)
(* path, no file is copied or removed by that step or after it, and the    *)
(* quarantine directory stays with the files already moved into it, in     *)
(* delete mode too.                                                        *)
(***************************************************************************)
C11_FirstFailureEndsTheRun ==
    [][fatal' \in {"copy", "remove"} =>
          /\ pc' = "exited"
          /\ result' = "err"
          /\ src' = src
          /\ cur' \in src'
          /\ copied' = copied
          /\ removed' = removed
          /\ cur' \notin removed'
          /\ fatal' = "remove" => cur' \in copied'
          /\ fatal' = "copy" => cur' \notin copied'
          /\ q_exists /\ q_exists'
          /\ \A k \in removed' :
                k \in DOMAIN q_files' /\ q_files'[k] = FileData(k)
          /\ fatal = fatal' => q_files' = q_files]_vars

C11_Witness ==
    /\ fatal = "remove"
    /\ delete
    /\ removed # {}
    /\ pc = "exited"

(***************************************************************************)
(* C12: to_delete/ is created only when it is not there as a directory;    *)
(* when the creation fails the process ends at once, before any copy or    *)
(* removal, with the OS error code as status and a diagnostic that shows   *)
(* the OS error; when the directory is there no creation is tried.         *)
(***************************************************************************)
C12_CreationFailureReportsOsError ==
    /\ fatal = "mkdir" =>
          /\ pc = "exited"
          /\ exit_status \in OsErrors
          /\ diag
          /\ diag_os
          /\ ~q0_exists /\ ~q_exists
          /\ copied = {} /\ removed = {}
          /\ src = src0
    /\ q0_exists =>
          /\ fatal # "mkdir"
          /\ q_files # q0_files => (copied # {} \/ fatal \in {"copy", "rmall"} \/ Succeeded)

(***************************************************************************)
(* C13: when relocation starts, the key of every orphan record is the name *)
(* of a file of the directory, and every key given to fs::copy as its      *)
(* source names a file that exists.                                        *)
(***************************************************************************)
C13_OrphanKeyNamesExistingFile ==
    /\ pc = "metadata" =>
          \A k \in DOMAIN photo_db :
              OrphanRecord(photo_db[k]) => (k \in src /\ k \in src0)
    /\ \A k \in pending : OrphanRecord(photo_db[k]) => k \in src
    /\ pc = "copy" => cur \in src

C13_Witness ==
    /\ pc = "copy"
    /\ RawExt # ImgExt
    /\ photo_dir.filter = "IMG"
    /\ \E k \in pending : OrphanRecord(photo_db[k])

(***************************************************************************)
(* C14: a relocated file lies in to_delete/ under the stem and the         *)
(* extension of its source file, nothing else is written into to_delete/,  *)
(* and two distinct orphans have distinct destinations.                    *)
(***************************************************************************)
C14_DestinationKeepsName ==
    /\ ~TerminalDeleteRan =>
          \A k \in copied : k \in DOMAIN q_files /\ q_files[k] = FileData(k)
    /\ DOMAIN q_files \subseteq
          (DOMAIN q0_files) \cup copied \cup (IF fatal = "copy" THEN {cur} ELSE {})
    /\ \A k1, k2 \in DOMAIN photo_db :
          (OrphanRecord(photo_db[k1]) /\ OrphanRecord(photo_db[k2]) /\ k1 # k2) =>
              delete_file(photo_dir, photo_db[k1]) # delete_file(photo_dir, photo_db[k2])

C14_Witness ==
    /\ Succeeded /\ ~delete
    /\ Cardinality(copied) = 2
    /\ DOMAIN q0_files = {}

(***************************************************************************)
(* C15: when the directory holds a regular file without extension, the run *)
(* never gets past catalog building: it ends with a fatal error, to_delete *)
(* is not created, no file is copied or removed and the filesystem stays   *)
(* as it was.                                                              *)
(***************************************************************************)
C15_NoExtensionIsFatalBeforeAnyChange ==
    (\E f \in src0 : extension(f) = NoExt) =>
        /\ pc \in {"make_path", "read_dir", "scan", "exited"}
        /\ db_result # "ok"
        /\ src = src0
        /\ q_exists = q0_exists
        /\ q_files = q0_files
        /\ copied = {} /\ removed = {}
        /\ pc = "exited" =>
              /\ fatal \in {"path", "open", "entry", "noext"}
              /\ exit_status # 0

C15_Witness ==
    /\ fatal = "noext"
    /\ pc = "exited"
    /\ obs_count > 0
    /\ ~q_exists
    /\ photo_dir.filter = "RAW"

SameFilterAgain ==
    /\ Len(past_runs) > 0
    /\ past_runs[Len(past_runs)] = photo_dir.filter

C16_RerunChangesNothing ==
    [][SameFilterAgain' =>
          /\ src' = src
          /\ q_exists' = q_exists
          /\ q_files' = q_files
          /\ copied' = {} /\ removed' = {}
          /\ pc' \notin {"copy", "remove"}
          /\ db_result' = "ok" =>
                \A k \in DOMAIN photo_db' : ~OrphanRecord(photo_db'[k])]_vars

C16_Witness ==
    /\ SameFilterAgain
    /\ Succeeded
    /\ DOMAIN photo_db # {}
    /\ \E f \in DOMAIN q_files : f \in src0 /\ f \notin src /\ q_files[f] = FileData(f)

(***************************************************************************)
(* C17 as stated: after two successful non-delete runs, one with filter    *)
(* RAW and one with filter IMG, in either order, the directory holds       *)
(* exactly the complete pairs and the other files, and to_delete/ holds    *)
(* exactly the RAW-only and the IMG-only files.                            *)
(***************************************************************************)
Paired0 ==
    {f \in PhotoFiles0 : <<file_stem(f), RawExt>> \in src0 /\ <<file_stem(f), ImgExt>> \in src0}
Single0 == PhotoFiles0 \ Paired0

BothFiltersRan ==
    /\ Succeeded
    /\ ~delete
    /\ Len(past_runs) > 0
    /\ {"RAW", "IMG"} \subseteq
          {photo_dir.filter} \cup {past_runs[i] : i \in 1..Len(past_runs)}

C17_Original ==
    BothFiltersRan =>
        /\ src = Paired0 \cup (src0 \ PhotoFiles0)
        /\ DOMAIN q_files = Single0

(***************************************************************************)
(* C17 amended: after two successful non-delete runs, one with filter RAW  *)
(* and one with filter IMG, in either order, the directory holds exactly   *)
(* the complete pairs and the other files, and to_delete/ holds exactly    *)
(* the RAW-only and the IMG-only files, each complete, next to the files   *)
(* it already held before the first run.                                   *)
(***************************************************************************)
C17_TwoFiltersCommute ==
    BothFiltersRan =>
        /\ src = Paired0 \cup (src0 \ PhotoFiles0)
        /\ DOMAIN q_files = Single0 \cup DOMAIN q0_files
        /\ \A f \in Single0 : q_files[f] = FileData(f)
        /\ \A f \in (DOMAIN q0_files) \ Single0 : q_files[f] = q0_files[f]

C17_Witness ==
    /\ BothFiltersRan
    /\ past_runs = <<"IMG">>
    /\ RawExt # ImgExt
    /\ <<"a", RawExt>> \in Single0
    /\ <<"b", ImgExt>> \in Single0
    /\ <<"a", TXT>> \in src
    /\ DOMAIN q0_files # {}

(***************************************************************************)
(* C19: the run with verbose = true and the run with verbose = false, fed  *)
(* the same directory, configuration and filesystem outcomes, are at every *)
(* step at the same place with the same catalog, the same directory, the   *)
(* same to_delete/ and the same result and exit status; only the number of *)
(* lines printed may differ.                                               *)
(***************************************************************************)
C19_VerboseChangesOnlyOutput ==
    pc = "twin" =>
        /\ quiet.pc = loud.pc
        /\ quiet.photo_db = loud.photo_db
        /\ quiet.dir_list = loud.dir_list
        /\ quiet.src = loud.src
        /\ quiet.q_exists = loud.q_exists
        /\ quiet.q_files = loud.q_files
        /\ quiet.pending = loud.pending
        /\ quiet.db_result = loud.db_result
        /\ quiet.result = loud.result
        /\ quiet.exit_status = loud.exit_status

C19_Witness ==
    /\ pc = "twin"
    /\ quiet.pc = "exited" /\ loud.pc = "exited"
    /\ quiet.result = "ok"
    /\ delete
    /\ quiet.src # src
    /\ loud.out > quiet.out + 4

====
